---- MODULE Spec2Model ----
(***************************************************************************)
(* Model of src/src/libs/generator.ts (class Generator): the block builder *)
(* generateSObjectTypeContents, the single-entity and config (batch)       *)
(* drivers, and generate().                                                *)
(*                                                                         *)
(* Conventions.  A JavaScript string is a sequence of one-character        *)
(* strings.  A value that may be null/undefined is either the empty        *)
(* sequence (null, undefined: falsy) or, for arrays, a one-element         *)
(* sequence holding the array (None / Some).  A text under construction    *)
(* (typeContents) is the sequence of the lines appended to it.             *)
(***************************************************************************)
EXTENDS Integers, Sequences, FiniteSets, TLC

VARIABLES
    pc,                          \* position of generate() in its chain of awaits
    flags,                       \* this.flags: sobject, config
    configFile,                  \* content of the file flags.config names
    createdFiles,                \* this.createdFiles
    writes,                      \* core.fs.writeFile calls that completed, in order
    stderr,                      \* process.stderr.write calls, in order
    sobjects,                    \* const sobjects of generateSObjectsConfig (None before readFile)
    specialChildrenToMap,        \* const specialChildrenToMap of generateSObjectsConfig
    promises,                    \* const promises of generateSObjectsConfig
    described,                   \* what connection.describe returned to each call
    unmappedChildRelationships,  \* this.unmappedChildRelationships (a Set: insertion order)
    call,                        \* arguments of a direct call of a function under test
    result                       \* its return value (None before the call)

vars == <<pc, flags, configFile, createdFiles, writes, stderr, sobjects,
          specialChildrenToMap, promises, described, unmappedChildRelationships,
          call, result>>

-----------------------------------------------------------------------------
(* Bounds of the model *)

MaxEntities == 2
MaxAllow == 2
MaxFields == 1
MaxChildren == 2
MaxRefTargets == 2
MaxNameLen == 5

-----------------------------------------------------------------------------
(* Values *)

None == <<>>
Some(x) == <<x>>
Range(s) == {s[i] : i \in 1..Len(s)}
SeqsUpTo(S, n) == UNION {[1..k -> S] : k \in 0..n}

RECURSIVE Concat(_)
Concat(seqs) == IF seqs = <<>> THEN <<>> ELSE Head(seqs) \o Concat(Tail(seqs))

A == <<"A">>
B == <<"B">>
C == <<"C">>
EntityNames == {A, B, C}

\* null, as connection.describe returns it for a missing relationshipName
NoName == <<>>
Truthy(v) == v # <<>>
\* `${v}` of a string or null
TemplateString(v) == IF v = NoName THEN <<"n", "u", "l", "l">> ELSE v

IdName == <<"I", "d">>
OwnerIdName == <<"O", "w", "n", "e", "r", "I", "d">>
OwnerName == <<"O", "w", "n", "e", "r">>
NameName == <<"N", "a", "m", "e">>
TotalName == <<"T", "o", "t", "a", "l">>
KidsName == <<"K", "i", "d", "s">>
ItemsName == <<"I", "t", "e", "m", "s">>

-----------------------------------------------------------------------------
(* String primitives of the JavaScript runtime *)

\* UTF-16 code unit of a character
CharCode(ch) ==
    CASE ch = "A" -> 65
      [] ch = "B" -> 66
      [] ch = "C" -> 67
      [] ch = "_" -> 95
      [] ch = "a" -> 97
      [] ch = "b" -> 98
      [] ch = "c" -> 99
      [] OTHER -> 120

RECURSIVE StrLess(_, _)
\* s < t as Array.prototype.sort's default comparator orders strings
StrLess(s, t) ==
    IF t = <<>> THEN FALSE
    ELSE IF s = <<>> THEN TRUE
    ELSE IF CharCode(Head(s)) # CharCode(Head(t))
         THEN CharCode(Head(s)) < CharCode(Head(t))
         ELSE StrLess(Tail(s), Tail(t))

RECURSIVE InsertSorted(_, _)
InsertSorted(sorted, x) ==
    IF sorted = <<>> THEN <<x>>
    ELSE IF StrLess(x, Head(sorted)) THEN <<x>> \o sorted
    ELSE <<Head(sorted)>> \o InsertSorted(Tail(sorted), x)

RECURSIVE SortInto(_, _)
SortInto(sorted, rest) ==
    IF rest = <<>> THEN sorted ELSE SortInto(InsertSorted(sorted, Head(rest)), Tail(rest))

\* Array.from(set) without the sort: insertion order
Unsorted(names) == names
\* Array.from(set).sort()
Sort(names) == SortInto(<<>>, names)

ToLowerChar(ch) ==
    CASE ch = "A" -> "a"
      [] ch = "B" -> "b"
      [] ch = "C" -> "c"
      [] OTHER -> ch

\* String.prototype.toLowerCase
ToLowerCase(s) == [i \in 1..Len(s) |-> ToLowerChar(s[i])]

\* String.prototype.indexOf, 1-based; 0 when pat does not occur
IndexOf(s, pat) ==
    LET hits == {i \in 1..(Len(s) + 1) :
                    /\ i + Len(pat) - 1 <= Len(s)
                    /\ SubSeq(s, i, i + Len(pat) - 1) = pat}
    IN IF hits = {} THEN 0 ELSE CHOOSE i \in hits : \A j \in hits : i <= j

\* String.prototype.replace with a string pattern: the first occurrence only
Replace(s, pat, rep) ==
    LET i == IndexOf(s, pat)
    IN IF i = 0 THEN s
       ELSE SubSeq(s, 1, i - 1) \o rep \o SubSeq(s, i + Len(pat), Len(s))

\* Array.prototype.findIndex(f => f === x): the 0-based index, -1 when absent
FindIndex(arr, x) ==
    LET hits == {i \in 1..Len(arr) : arr[i] = x}
    IN IF hits = {} THEN -1 ELSE (CHOOSE i \in hits : \A j \in hits : i <= j) - 1

\* arr.splice(index, 1), index 0-based
Splice(arr, index) == SubSeq(arr, 1, index) \o SubSeq(arr, index + 2, Len(arr))

\* Set.prototype.add on a Set kept in insertion order
\* a Set left as it is
SetKeep(set, x) == set
SetAdd(set, x) == IF x \in Range(set) THEN set ELSE Append(set, x)

-----------------------------------------------------------------------------
(* generateSObjectTypeContents *)

Line(kind, name, type, of, note) ==
    [kind |-> kind, name |-> name, type |-> type, of |-> of, note |-> note]

\* the switch on field['type']
TypeName(type) ==
    CASE type = "boolean" -> <<"boolean">>
      [] type \in {"int", "double", "currency"} -> <<"number">>
      [] type \in {"date", "datetime"} -> <<"DateString", "|", "null">>
      [] type = "phone" -> <<"PhoneString">>
      [] type \in {"string", "textarea"} -> <<"string">>
      [] type = "reference" -> <<"ID">>
      [] OTHER -> <<"string", "//", type>>

\* sObjects && sObjects.find(f => f === name)
Known(sObjects, name) ==
    sObjects # None /\ name \in Range(sObjects[1])

RECURSIVE RefTypeName(_, _)
\* field.referenceTo.forEach(...): the known targets, joined by ' | ' in field order
RefTypeName(referenceTo, sObjects) ==
    IF referenceTo = <<>> THEN <<>>
    ELSE (IF Known(sObjects, Head(referenceTo)) THEN <<Head(referenceTo)>> ELSE <<>>)
         \o RefTypeName(Tail(referenceTo), sObjects)

\* one iteration of describe.fields.forEach
FieldLines(field, sObjects) ==
    IF field.name = IdName THEN <<>>
    ELSE <<Line("field", field.name, TypeName(field.type), <<>>,
                IF field.calculated THEN <<"//calculated">> ELSE <<>>)>>
         \o (IF field.type = "reference" /\ Truthy(RefTypeName(field.referenceTo, sObjects))
             THEN <<Line("reference", TemplateString(field.relationshipName), <<"union">>,
                         RefTypeName(field.referenceTo, sObjects), <<>>)>>
             ELSE <<>>)

RECURSIVE FieldsLines(_, _)
FieldsLines(fields, sObjects) ==
    IF fields = <<>> THEN <<>>
    ELSE FieldLines(Head(fields), sObjects) \o FieldsLines(Tail(fields), sObjects)

ChildRecordsLine(name, childSObject) ==
    Line("ChildRecords", name, <<"ChildRecords">>, <<childSObject>>, <<>>)

\* index >= 0: any entry of the list
IndexMatchesFromZero(index) == index >= 0
\* if (index > 0)
IndexMatches(index) == index > 0

\* one iteration of describe.childRelationships.forEach on
\* st = [typeContents, clone (specialChildrenToMapClone), unmapped]
ChildStep(st, child, sObjects) ==
    LET childSObject == child.childSObject
        childRelationshipName == child.relationshipName
        index == FindIndex(st.clone, childSObject)
    IN IF Known(sObjects, childSObject)
       THEN IF Truthy(childRelationshipName)
            THEN [st EXCEPT !.typeContents =
                     Append(@, ChildRecordsLine(childRelationshipName, childSObject))]
            ELSE IF Len(child.junctionReferenceTo) > 0
                 THEN [st EXCEPT !.typeContents =
                          @ \o [j \in 1..Len(child.junctionReferenceTo) |->
                                   ChildRecordsLine(child.junctionReferenceTo[j], childSObject)]]
                 ELSE IF IndexMatches(index)
                      THEN [st EXCEPT
                               !.clone = Splice(@, index),
                               !.typeContents =
                                   Append(@, Line("singular", childSObject, <<"entity">>,
                                                  <<childSObject>>, <<>>))]
                      ELSE st
       ELSE IF Truthy(childRelationshipName)
            THEN [st EXCEPT
                     !.unmapped = SetAdd(@, childSObject),
                     !.typeContents =
                         Append(@, ChildRecordsLine(childRelationshipName, childSObject))]
            ELSE st

RECURSIVE ChildrenSteps(_, _, _)
ChildrenSteps(st, children, sObjects) ==
    IF children = <<>> THEN st
    ELSE ChildrenSteps(ChildStep(st, Head(children), sObjects), Tail(children), sObjects)

\* the body of generateSObjectTypeContents after `await connection.describe`:
\* [typeContents, clone, unmapped] when it returns
Contents(objectName, describe, sObjects, special, unmapped) ==
    LET opened == <<Line("interface", objectName, <<"SObjectAttribute">>, <<objectName>>, <<>>)>>
                  \o FieldsLines(describe.fields, sObjects)
        st == ChildrenSteps(
                  [typeContents |-> opened,
                   clone |-> IF special = None THEN <<>> ELSE special[1],
                   unmapped |-> unmapped],
                  describe.childRelationships, sObjects)
    IN [st EXCEPT !.typeContents = Append(@, Line("close", <<>>, <<>>, <<>>, <<>>))]

-----------------------------------------------------------------------------
(* Entity descriptions, as connection.describe returns them *)

Field(name, type, calculated, referenceTo, relationshipName) ==
    [name |-> name, type |-> type, calculated |-> calculated,
     referenceTo |-> referenceTo, relationshipName |-> relationshipName]

Child(childSObject, relationshipName, junctionReferenceTo) ==
    [childSObject |-> childSObject, relationshipName |-> relationshipName,
     junctionReferenceTo |-> junctionReferenceTo]

Description(fields, childRelationships) ==
    [fields |-> fields, childRelationships |-> childRelationships]

ScalarFields ==
    {Field(IdName, "id", FALSE, <<>>, NoName),
     Field(NameName, "string", FALSE, <<>>, NoName),
     Field(TotalName, "currency", TRUE, <<>>, NoName)}

\* the entity names of the descriptions and lists given to a direct call
BuildNames == {A, B}

ReferenceFields ==
    {Field(OwnerIdName, "reference", FALSE, targets, rel) :
        targets \in SeqsUpTo(BuildNames, MaxRefTargets) \ {<<>>},
        rel \in {NoName, OwnerName}}

ChildOptions ==
    {Child(c, KidsName, <<>>) : c \in BuildNames}
    \cup {Child(c, NoName, <<>>) : c \in BuildNames}
    \cup {Child(c, NoName, <<A, B>>) : c \in BuildNames}

-----------------------------------------------------------------------------
(* File names *)

FilePath(file) == [dir |-> "outputdir", file |-> file]

SObjectFile == FilePath(<<"s", "o", "b", "j", "e", "c", "t", ".ts">>)
SObjectFieldTypesFile ==
    FilePath(<<"s", "o", "b", "j", "e", "c", "t", "F", "i", "e", "l", "d",
               "T", "y", "p", "e", "s", ".ts">>)
SObjectsFile == FilePath(<<"s", "o", "b", "j", "e", "c", "t", "s", ".ts">>)

\* objectName.replace('__c', '').replace('_', '')
PascalObjectName(objectName) ==
    Replace(Replace(objectName, <<"_", "_", "c">>, <<>>), <<"_">>, <<>>)

\* join(this.flags.outputdir, `${pascalObjectName.toLowerCase()}.ts`)
EntityFile(objectName) ==
    FilePath(ToLowerCase(PascalObjectName(objectName)) \o <<".ts">>)

-----------------------------------------------------------------------------
(* The state of a Generator on which generate() has not been called *)

Idle ==
    /\ pc = "idle"
    /\ flags = [sobject |-> NoName, config |-> NoName]
    /\ configFile = [parses |-> FALSE, sobjects |-> <<>>, specialChildrenToMap |-> <<>>]
    /\ createdFiles = <<>>
    /\ writes = <<>>
    /\ stderr = <<>>
    /\ sobjects = None
    /\ specialChildrenToMap = None
    /\ promises = <<>>
    /\ described = <<>>
    /\ unmappedChildRelationships = <<>>

runVars == <<pc, flags, configFile, createdFiles, writes, stderr, sobjects,
             specialChildrenToMap, promises, described, unmappedChildRelationships>>

-----------------------------------------------------------------------------
(* SpecName: the entity file name of generateSObject, over all object names *)

NameAlphabet == {"A", "_", "c"}
\* object names: a letter, then letters and underscores
ObjectNames == {<<"A">> \o rest : rest \in SeqsUpTo(NameAlphabet, MaxNameLen - 1)}

InitName ==
    /\ Idle
    /\ call \in {[objectName |-> n] : n \in ObjectNames}
    /\ result = None

ComputeEntityFile ==
    /\ result = None
    /\ result' = Some(EntityFile(call.objectName))
    /\ UNCHANGED <<call, runVars>>

NextName == ComputeEntityFile

SpecName == InitName /\ [][NextName]_vars

-----------------------------------------------------------------------------
(* SpecBuild: generateSObjectTypeContents on one description, over all     *)
(* small descriptions, known-entity lists and allow-lists                  *)

Ascending(s) == \A i \in 1..(Len(s) - 1) : StrLess(s[i], s[i + 1])

\* the sObjects argument: absent, or a list of distinct entity names
KnownOptions ==
    {None} \cup {Some(s) : s \in {t \in SeqsUpTo(BuildNames, Cardinality(BuildNames)) :
                                     Ascending(t)}}

\* the specialChildrenToMap argument: absent, or any list of entity names
AllowOptions == {None} \cup {Some(s) : s \in SeqsUpTo(BuildNames, MaxAllow)}

BuildCall(describe, sObjects, special) ==
    [objectName |-> A, describe |-> describe, sObjects |-> sObjects,
     specialChildrenToMap |-> special]

BuildCalls ==
    {BuildCall(Description(fs, <<>>), k, None) :
        fs \in SeqsUpTo(ScalarFields \cup ReferenceFields, MaxFields), k \in KnownOptions}
    \cup
    {BuildCall(Description(<<>>, cs), k, al) :
        cs \in SeqsUpTo(ChildOptions, MaxChildren), k \in KnownOptions, al \in AllowOptions}

InitBuild ==
    /\ Idle
    /\ call \in BuildCalls
    /\ result = None

BuildContents ==
    /\ result = None
    /\ result' = Some(Contents(call.objectName, call.describe, call.sObjects,
                               call.specialChildrenToMap, <<>>))
    /\ UNCHANGED <<call, runVars>>

NextBuild == BuildContents

SpecBuild == InitBuild /\ [][NextBuild]_vars

-----------------------------------------------------------------------------
(* Spec: one call of generate() *)

ConfigPath == <<"c", "f", "g">>
CustomName == <<"A", "_", "B", "_", "_", "c">>

\* the switch without its first branch
ModeSingleFirst(f) ==
    IF Truthy(f.sobject) THEN "single"
    ELSE IF Truthy(f.config) THEN "config"
    ELSE "neither"
\* the switch of generate() on this.flags
Mode(f) ==
    IF Truthy(f.sobject) /\ Truthy(f.config) THEN "both"
    ELSE IF Truthy(f.sobject) THEN "single"
    ELSE IF Truthy(f.config) THEN "config"
    ELSE "neither"

OwnerField == Field(OwnerIdName, "reference", FALSE, <<A, C>>, OwnerName)

\* the descriptions connection.describe answers with during a run
RunFields == <<Field(IdName, "id", FALSE, <<>>, NoName), OwnerField>>

\* the descriptions connection.describe answers with during a run
RunDescriptions ==
    {Description(<<>>, <<>>),
     Description(RunFields, <<Child(B, KidsName, <<>>)>>),
     Description(<<>>, <<Child(C, ItemsName, <<>>), Child(B, KidsName, <<>>)>>),
     Description(RunFields, <<Child(B, NoName, <<>>)>>),
     Description(<<>>, <<Child(B, NoName, <<A, C>>)>>)}

RunAllowLists == {<<>>, <<A, B>>}

Unread == [parses |-> FALSE, sobjects |-> <<>>, specialChildrenToMap |-> <<>>]

ConfigFiles ==
    {Unread}
    \cup {[parses |-> TRUE, sobjects |-> s, specialChildrenToMap |-> a] :
             s \in SeqsUpTo(EntityNames, MaxEntities), a \in RunAllowLists}

Init ==
    /\ pc = "createBaseSObjectType"
    /\ flags \in {[sobject |-> s, config |-> c] :
                     s \in {NoName, A, CustomName}, c \in {NoName, ConfigPath}}
    /\ configFile \in (IF Mode(flags) = "config" THEN ConfigFiles ELSE {Unread})
    /\ createdFiles = <<>>
    /\ writes = <<>>
    /\ stderr = <<>>
    /\ sobjects = None
    /\ specialChildrenToMap = None
    /\ promises = <<>>
    /\ described = <<>>
    /\ unmappedChildRelationships = <<>>
    /\ call = None
    /\ result = None

\* await core.fs.writeFile(filePath, content); this.createdFiles.push(filePath)
WriteFile(filePath, content) ==
    /\ writes' = Append(writes, [path |-> filePath, content |-> content])
    /\ createdFiles' = Append(createdFiles, filePath)

\* core.fs.writeFile rejects: the caller throws before its push
WriteFileFails ==
    /\ pc' = "failed"
    /\ UNCHANGED <<writes, createdFiles>>

CreateBaseSObjectType ==
    /\ pc = "createBaseSObjectType"
    /\ WriteFile(SObjectFile, <<Line("sobject", <<>>, <<>>, <<>>, <<>>)>>)
    /\ pc' = "createSalesforceFieldTypes"
    /\ UNCHANGED <<flags, configFile, stderr, sobjects, specialChildrenToMap, promises,
                   described, unmappedChildRelationships, call, result>>

CreateSalesforceFieldTypes ==
    /\ pc = "createSalesforceFieldTypes"
    /\ WriteFile(SObjectFieldTypesFile, <<Line("sobjectFieldTypes", <<>>, <<>>, <<>>, <<>>)>>)
    /\ pc' = "dispatch"
    /\ UNCHANGED <<flags, configFile, stderr, sobjects, specialChildrenToMap, promises,
                   described, unmappedChildRelationships, call, result>>

\* core.fs.readdir or core.fs.writeFile of a preamble file rejects
PreambleFails ==
    /\ pc \in {"createBaseSObjectType", "createSalesforceFieldTypes"}
    /\ WriteFileFails
    /\ UNCHANGED <<flags, configFile, stderr, sobjects, specialChildrenToMap, promises,
                   described, unmappedChildRelationships, call, result>>

\* both or neither of -s and -c: the message, and generate() returns
GenerateModeError ==
    /\ pc = "dispatch"
    /\ Mode(flags) \in {"both", "neither"}
    /\ stderr' = Append(stderr, IF Mode(flags) = "both"
                                THEN "Please provide only -s or -c, not both"
                                ELSE "Please provide a -s or -c")
    /\ pc' = "done"
    /\ UNCHANGED <<flags, configFile, createdFiles, writes, sobjects, specialChildrenToMap,
                   promises, described, unmappedChildRelationships, call, result>>

\* generateSObject up to `await connection.describe`
GenerateSObject ==
    /\ pc = "dispatch"
    /\ Mode(flags) = "single"
    /\ pc' = "describeSObject"
    /\ UNCHANGED <<flags, configFile, createdFiles, writes, stderr, sobjects,
                   specialChildrenToMap, promises, described, unmappedChildRelationships,
                   call, result>>

\* the describe of single mode answers: the block is built, replaces the file
\* header in typeContents, and is written
DescribeSObjectResolves ==
    /\ pc = "describeSObject"
    /\ \E d \in RunDescriptions :
          \E r \in {Contents(flags.sobject, d, None, None, unmappedChildRelationships)} :
             /\ described' = <<Some(d)>>
             /\ unmappedChildRelationships' = r.unmapped
             /\ \/ WriteFile(EntityFile(flags.sobject), r.typeContents) /\ pc' = "done"
                \/ WriteFileFails
    /\ UNCHANGED <<flags, configFile, stderr, sobjects, specialChildrenToMap, promises,
                   call, result>>

DescribeSObjectRejects ==
    /\ pc = "describeSObject"
    /\ pc' = "failed"
    /\ UNCHANGED <<flags, configFile, createdFiles, writes, stderr, sobjects,
                   specialChildrenToMap, promises, described, unmappedChildRelationships,
                   call, result>>

\* readFile throws on a document JSON.parse rejects
ReadFileParseError ==
    /\ pc = "dispatch"
    /\ Mode(flags) = "config"
    /\ ~configFile.parses
    /\ stderr' = stderr \o <<"FAILED TO PARSE JSON", "stack">>
    /\ pc' = "failed"
    /\ UNCHANGED <<flags, configFile, createdFiles, writes, sobjects, specialChildrenToMap,
                   promises, described, unmappedChildRelationships, call, result>>

\* readFile returns; the loop calls the builder once per name, and every call
\* runs to its `await connection.describe`
ReadFileAndFanOut ==
    /\ pc = "dispatch"
    /\ Mode(flags) = "config"
    /\ configFile.parses
    /\ sobjects' = Some(configFile.sobjects)
    /\ specialChildrenToMap' = Some(configFile.specialChildrenToMap)
    /\ promises' = [i \in 1..Len(configFile.sobjects) |-> [state |-> "pending", value |-> <<>>]]
    /\ described' = [i \in 1..Len(configFile.sobjects) |-> None]
    /\ pc' = "awaitAll"
    /\ UNCHANGED <<flags, configFile, createdFiles, writes, stderr,
                   unmappedChildRelationships, call, result>>

\* the caller's array when the builder splices it directly
CallerArrayAliased(array, clone) == clone
\* Array.from(specialChildrenToMap || []): the splices go to a new array and
\* the caller's array stays as it is
CallerArray(array, clone) == array

\* the describe of entity i answers: the rest of the builder call runs
DescribeResolves(i) ==
    /\ promises[i].state = "pending"
    /\ \E d \in RunDescriptions :
          \E r \in {Contents(sobjects[1][i], d, sobjects, specialChildrenToMap,
                             unmappedChildRelationships)} :
             /\ described' = [described EXCEPT ![i] = Some(d)]
             /\ unmappedChildRelationships' = r.unmapped
             /\ specialChildrenToMap' = Some(CallerArray(specialChildrenToMap[1], r.clone))
             /\ promises' = [promises EXCEPT
                                ![i] = [state |-> "fulfilled", value |-> r.typeContents]]
    /\ UNCHANGED <<pc, flags, configFile, createdFiles, writes, stderr, sobjects, call, result>>

\* the describe of entity i fails: the builder call throws
DescribeRejects(i) ==
    /\ promises[i].state = "pending"
    /\ promises' = [promises EXCEPT ![i] = [state |-> "rejected", value |-> <<>>]]
    /\ UNCHANGED <<pc, flags, configFile, createdFiles, writes, stderr, sobjects,
                   specialChildrenToMap, described, unmappedChildRelationships, call, result>>

\* no promise is pending
AllSettled(ps) == \A i \in 1..Len(ps) : ps[i].state # "pending"
\* Promise.all(promises) is fulfilled
AllFulfilled(ps) == \A i \in 1..Len(ps) : ps[i].state = "fulfilled"

\* Promise.all(promises) is rejected
AnyRejected(ps) == \E i \in 1..Len(ps) : ps[i].state = "rejected"

\* `await Promise.all(promises)` throws
PromiseAllRejects ==
    /\ pc = "awaitAll"
    /\ AnyRejected(promises)
    /\ pc' = "failed"
    /\ UNCHANGED <<flags, configFile, createdFiles, writes, stderr, sobjects,
                   specialChildrenToMap, promises, described, unmappedChildRelationships,
                   call, result>>

\* generateFileHeader()
FileHeader == <<Line("fileHeader", <<>>, <<>>, <<>>, <<>>)>>

\* what `typeContents += p` appends for a promise p
PromiseText(p) == <<Line("text", <<>>, <<"[object Promise]">>, <<>>, <<>>)>>

UnmappedTypes(unmapped) ==
    <<Line("text", <<>>, <<"// unmapped types:">>, <<>>, <<>>)>>
    \o [k \in 1..Len(Sort(unmapped)) |-> Line("stub", Sort(unmapped)[k], <<"any">>, <<>>, <<>>)]

\* the document generateSObjectsConfig writes
SObjectsContents(ps, unmapped) ==
    FileHeader \o Concat([i \in 1..Len(ps) |-> PromiseText(ps[i])]) \o UnmappedTypes(unmapped)

\* `await Promise.all(promises)` returns: the document is assembled and written
WriteSObjects ==
    /\ pc = "awaitAll"
    /\ AllFulfilled(promises)
    /\ \/ /\ WriteFile(SObjectsFile, SObjectsContents(promises, unmappedChildRelationships))
          /\ pc' = "done"
       \/ WriteFileFails
    /\ UNCHANGED <<flags, configFile, stderr, sobjects, specialChildrenToMap, promises,
                   described, unmappedChildRelationships, call, result>>

Next ==
    \/ CreateBaseSObjectType
    \/ CreateSalesforceFieldTypes
    \/ PreambleFails
    \/ GenerateModeError
    \/ GenerateSObject
    \/ DescribeSObjectResolves
    \/ DescribeSObjectRejects
    \/ ReadFileParseError
    \/ ReadFileAndFanOut
    \/ \E i \in 1..Len(promises) : DescribeResolves(i)
    \/ \E i \in 1..Len(promises) : DescribeRejects(i)
    \/ PromiseAllRejects
    \/ WriteSObjects

Spec == Init /\ [][Next]_vars

-----------------------------------------------------------------------------
(* Properties of the entity file name (SpecName) *)

TrailingSuffixRemoved(s) ==
    IF Len(s) >= 3 /\ SubSeq(s, Len(s) - 2, Len(s)) = <<"_", "_", "c">>
    THEN SubSeq(s, 1, Len(s) - 3)
    ELSE s

IsNotUnderscore(ch) == ch # "_"
UnderscoresRemoved(s) == SelectSeq(s, IsNotUnderscore)

NormalizedFile(objectName) ==
    FilePath(ToLowerCase(UnderscoresRemoved(TrailingSuffixRemoved(objectName))) \o <<".ts">>)

\* C8: the entity file of single mode is named from the lowercase form of the
\* entity name with its trailing __c suffix removed and every underscore
\* removed, for every entity name.
C8_FileNameNormalized ==
    result # None => result[1] = NormalizedFile(call.objectName)

-----------------------------------------------------------------------------
(* Properties of the block builder (SpecBuild) *)

IsReferenceLine(line) == line.kind = "reference"
IsSingularLine(line) == line.kind = "singular"

\* the known entity set of a call, as a set
KnownSet(sObjects) == IF sObjects = None THEN {} ELSE Range(sObjects[1])

\* the caller-supplied allow-list of a call
AllowList(special) == IF special = None THEN <<>> ELSE special[1]

KnownTargets(field, known) ==
    LET IsKnown(r) == r \in known IN SelectSeq(field.referenceTo, IsKnown)

\* the relationship property the claim gives a field: none, or one property
\* named relationshipName whose type is the union of the known targets
ClaimedReferenceLines(field, known) ==
    IF /\ field.type = "reference"
       /\ field.relationshipName # NoName
       /\ KnownTargets(field, known) # <<>>
    THEN <<Line("reference", field.relationshipName, <<"union">>,
                KnownTargets(field, known), <<>>)>>
    ELSE <<>>

\* C5: a relationship property is emitted exactly when the field is a
\* reference with a non-empty relationshipName and at least one known target,
\* typed as the union of the known targets in field order; a reference field
\* keeps its scalar identifier property in every case.
C5_ReferencePropertyExactlyWhen ==
    result # None =>
        LET fields == call.describe.fields
            known == KnownSet(call.sObjects)
            contents == result[1].typeContents
        IN /\ SelectSeq(contents, IsReferenceLine)
                = Concat([i \in 1..Len(fields) |-> ClaimedReferenceLines(fields[i], known)])
           /\ \A i \in 1..Len(fields) :
                 fields[i].type = "reference" /\ fields[i].name # IdName =>
                     \E k \in 1..Len(contents) :
                         contents[k] = Line("field", fields[i].name, <<"ID">>, <<>>, <<>>)

IsAnonymousPlain(child) ==
    child.relationshipName = NoName /\ child.junctionReferenceTo = <<>>

SingularLine(child) ==
    Line("singular", child.childSObject, <<"entity">>, <<child.childSObject>>, <<>>)

\* C9 as stated: the child entity occurs in the allow-list after its first entry
OccursAfterFirst(allow, name) == \E i \in 2..Len(allow) : allow[i] = name

\* C9: an unnamed child relationship without junction targets gets a bare
\* singular property exactly when its child entity occurs in the allow-list
\* at a position after the first.
C9_SingularExactlyWhenAfterFirst ==
    result # None =>
        LET children == call.describe.childRelationships
            allow == AllowList(call.specialChildrenToMap)
        IN SelectSeq(result[1].typeContents, IsSingularLine)
             = Concat([j \in 1..Len(children) |->
                         IF /\ IsAnonymousPlain(children[j])
                            /\ OccursAfterFirst(allow, children[j].childSObject)
                         THEN <<SingularLine(children[j])>>
                         ELSE <<>>])

Occurrences(seq, x) == Cardinality({i \in 1..Len(seq) : seq[i] = x})

\* the unnamed, junction-free child relationships of the same child entity
\* that precede position j
EarlierAnonymousPlain(children, j) ==
    Cardinality({k \in 1..(j - 1) :
                    /\ IsAnonymousPlain(children[k])
                    /\ children[k].childSObject = children[j].childSObject})

\* C9, amended: the property is emitted exactly when the child entity is in
\* the known entity set, is not the first entry of the allow-list, and occurs
\* in the allow-list more often than there are earlier unnamed junction-free
\* child relationships of the same child entity in the description (each
\* emission uses up one allow-list entry).
C9_SingularExactlyWhenKnownAndLeft ==
    result # None =>
        LET children == call.describe.childRelationships
            allow == AllowList(call.specialChildrenToMap)
            known == KnownSet(call.sObjects)
        IN SelectSeq(result[1].typeContents, IsSingularLine)
             = Concat([j \in 1..Len(children) |->
                         IF /\ IsAnonymousPlain(children[j])
                            /\ children[j].childSObject \in known
                            /\ allow # <<>>
                            /\ allow[1] # children[j].childSObject
                            /\ Occurrences(allow, children[j].childSObject)
                                 > EarlierAnonymousPlain(children, j)
                         THEN <<SingularLine(children[j])>>
                         ELSE <<>>])

\* a call in which the second of two unnamed junction-free relationships of
\* one known child entity finds its allow-list entry used up by the first
C9_Witness ==
    /\ result # None
    /\ Len(call.describe.childRelationships) >= 2
    /\ IsAnonymousPlain(call.describe.childRelationships[1])
    /\ call.describe.childRelationships[2] = call.describe.childRelationships[1]
    /\ OccursAfterFirst(AllowList(call.specialChildrenToMap),
                        call.describe.childRelationships[1].childSObject)
    /\ Len(SelectSeq(result[1].typeContents, IsSingularLine)) = 1

-----------------------------------------------------------------------------
(* Properties of a run of generate() (Spec) *)

\* generate() has returned from a run with -c alone (batch), with -s alone (single)
BatchDone == pc = "done" /\ flags.config # NoName /\ flags.sobject = NoName
SingleDone == pc = "done" /\ flags.sobject # NoName /\ flags.config = NoName

IsSObjectsWrite(w) == w.path = SObjectsFile
IsStubLine(line) == line.kind = "stub"

\* the document of the combined file, once written
Document == SelectSeq(writes, IsSObjectsWrite)[1].content

\* the names of the stub section of a document, in document order
StubNames(doc) ==
    LET stubs == SelectSeq(doc, IsStubLine) IN [k \in 1..Len(stubs) |-> stubs[k].name]

\* block occurs in doc from position p on
OccursAt(doc, block, p) ==
    /\ p + Len(block) - 1 <= Len(doc)
    /\ SubSeq(doc, p, p + Len(block) - 1) = block

\* C1: the combined document contains the generated block of every listed
\* entity, and the blocks occur in the order of entityNames, whatever the
\* order in which the fetches completed.
C1_BlocksInEntityOrder ==
    BatchDone =>
        \E pos \in [1..Len(promises) -> 1..Len(Document)] :
            /\ \A i \in 1..Len(promises) : OccursAt(Document, promises[i].value, pos[i])
            /\ \A i \in 1..(Len(promises) - 1) :
                  pos[i] + Len(promises[i].value) <= pos[i + 1]

\* the entity type names a property line refers to
IsTypedLine(line) == line.kind \in {"reference", "ChildRecords", "singular"}
ReferencedTypes(block) ==
    UNION {Range(block[k].of) : k \in {m \in 1..Len(block) : IsTypedLine(block[m])}}

\* C2: at the end of a batch run every entity type name a generated property
\* refers to is a listed entity or has a stub in the stub section.
C2_NoDanglingTypeName ==
    BatchDone =>
        \A i \in 1..Len(promises) :
            ReferencedTypes(promises[i].value)
                \subseteq Range(sobjects[1]) \cup Range(StubNames(Document))

\* a finished batch run with a union-typed reference property, a child
\* property of a listed entity and a child property of a stubbed entity
C2_Witness ==
    /\ BatchDone
    /\ \E i \in 1..Len(promises) : SelectSeq(promises[i].value, IsReferenceLine) # <<>>
    /\ \E i \in 1..Len(promises) : SelectSeq(promises[i].value, IsSingularLine) # <<>>
    /\ \E i \in 1..Len(promises) :
          ReferencedTypes(promises[i].value) \cap Range(StubNames(Document)) # {}

\* the child entities of the named child relationships of the fetched
\* descriptions that are no listed entity
UnknownNamedChildren ==
    UNION {{d.childRelationships[k].childSObject :
               k \in {m \in 1..Len(d.childRelationships) :
                         /\ d.childRelationships[m].relationshipName # NoName
                         /\ d.childRelationships[m].childSObject \notin Range(sobjects[1])}} :
           d \in {described[i][1] : i \in 1..Len(described)}}

\* C3: after a full batch run the stub section holds exactly one stub per
\* child entity of a named child relationship outside the known set, in
\* lexicographic order, whatever the completion order was.
C3_StubsOncePerUnknownChildSorted ==
    BatchDone =>
        /\ Ascending(StubNames(Document))
        /\ Range(StubNames(Document)) = UnknownNamedChildren

\* a finished batch run in which two entities name the same unknown child and
\* the unknown children were met in the reverse of their lexicographic order
C3_Witness ==
    /\ BatchDone
    /\ unmappedChildRelationships = <<C, B>>
    /\ Len(described) = 2
    /\ \A i \in 1..2 :
          \E k \in 1..Len(described[i][1].childRelationships) :
              /\ described[i][1].childRelationships[k].childSObject = B
              /\ described[i][1].childRelationships[k].relationshipName # NoName

\* the block of the entity file, once written
IsEntityWrite(w) == w.path = EntityFile(flags.sobject)
EntityBlock == SelectSeq(writes, IsEntityWrite)[1].content

\* C4: in single mode the block holds no relationship property for any
\* reference field and no property for any child relationship.
C4_SingleModeNoRelationshipProperty ==
    SingleDone => \A k \in 1..Len(EntityBlock) : ~IsTypedLine(EntityBlock[k])

\* both or neither of -s and -c were given
ModeIsError == (flags.sobject # NoName) <=> (flags.config # NoName)

\* C6: with both or neither mode selected generate() reports the error on
\* standard error and generates nothing: no describe, no config read, no
\* entity or combined file, createdFiles holding the two preamble files.
C6_ModeErrorGeneratesNothing ==
    ModeIsError =>
        /\ pc \notin {"describeSObject", "awaitAll"}
        /\ sobjects = None
        /\ promises = <<>>
        /\ described = <<>>
        /\ \A k \in 1..Len(writes) : writes[k].path \in {SObjectFile, SObjectFieldTypesFile}
        /\ pc = "done" =>
              /\ createdFiles = <<SObjectFile, SObjectFieldTypesFile>>
              /\ Len(stderr) = 1
              /\ stderr[1] \in {"Please provide only -s or -c, not both",
                               "Please provide a -s or -c"}

\* generate() has returned after being given both -s and -c
C6_Witness ==
    /\ pc = "done"
    /\ flags.sobject # NoName
    /\ flags.config # NoName
    /\ stderr # <<>>

\* C7: once the describe of one listed entity has failed, the combined file
\* is never written nor added to createdFiles, whatever the other fetches do
\* and in whatever order; the run does not complete, and the two preamble
\* files remain.
C7_FailedFetchNoCombinedFile ==
    AnyRejected(promises) =>
        /\ pc \in {"awaitAll", "failed"}
        /\ \A k \in 1..Len(writes) : writes[k].path # SObjectsFile
        /\ createdFiles = <<SObjectFile, SObjectFieldTypesFile>>
        /\ [k \in 1..Len(writes) |-> writes[k].path] = createdFiles

\* a failed batch run in which one fetch failed and another one, completing
\* after the failure was seen or before it, succeeded
C7_Witness ==
    /\ pc = "failed"
    /\ AnyRejected(promises)
    /\ AllSettled(promises)
    /\ \E i \in 1..Len(promises) : promises[i].state = "fulfilled"

\* C10: the builder calls leave the caller's entity-name list and allow-list
\* as the config gave them, and every block is the block of its entity's
\* description under the config's lists alone, whatever calls ran before it.
C10_BuilderCallsLeaveListsAlone ==
    sobjects # None =>
        /\ sobjects = Some(configFile.sobjects)
        /\ specialChildrenToMap = Some(configFile.specialChildrenToMap)
        /\ \A i \in 1..Len(promises) :
              promises[i].state = "fulfilled" =>
                  promises[i].value
                      = Contents(configFile.sobjects[i], described[i][1],
                                 Some(configFile.sobjects),
                                 Some(configFile.specialChildrenToMap), <<>>).typeContents

\* two builder calls of one run have each taken an entry off their copy of
\* the allow-list
C10_Witness ==
    /\ Len(promises) = 2
    /\ \A i \in 1..2 :
          /\ promises[i].state = "fulfilled"
          /\ SelectSeq(promises[i].value, IsSingularLine) # <<>>

====
